---- MODULE Spec2Model ----
(***************************************************************************)
(* RateLimitMiddleware (limit.py): per-client request counting in front of *)
(* the RAG service.  dispatch is a coroutine on a single event loop: it    *)
(* runs uninterrupted from its entry to `await call_next(request)`, is     *)
(* suspended there, and runs uninterrupted again from the resumption to    *)
(* its return.  Several dispatch calls may be suspended at the same time.  *)
(***************************************************************************)
EXTENDS Integers, Sequences, FiniteSets, TLC

\* ------------------------------------------------------------------ bounds
MaxRequests == 3
MaxDailyLimit == 2

Slots == 1..MaxRequests
DailyLimits == 1..MaxDailyLimit

\* ------------------------------------------------------------------ inputs
\* Paths are sequences of characters, so that startswith is computed.
QueryPath == <<"/", "q", "u", "e", "r", "y">>
QuerySubPath == <<"/", "q", "u", "e", "r", "y", "/", "a">>
HealthPath == <<"/", "h", "e", "a", "l", "t", "h">>
Paths == {QueryPath, QuerySubPath, HealthPath}

Hosts == {"1.2.3.4", "5.6.7.8"}

\* request.client: an address with a host, or None
None == [is_none |-> TRUE, host |-> ""]
Address(h) == [is_none |-> FALSE, host |-> h]
Clients == {Address(h) : h \in Hosts} \cup {None}

\* what the awaited call_next can do: return a response, or raise
DownstreamStatuses == {200}
DownstreamErrors == {"RuntimeError", "CancelledError"}

\* ------------------------------------------------------------------ values
RemainingHeader == "X-Remaining-Requests"

Digit(d) ==
    CASE d = 0 -> "0" [] d = 1 -> "1" [] d = 2 -> "2" [] d = 3 -> "3"
      [] d = 4 -> "4" [] d = 5 -> "5" [] d = 6 -> "6" [] d = 7 -> "7"
      [] d = 8 -> "8" [] d = 9 -> "9"

RECURSIVE digits(_)
digits(n) ==
    IF n < 10 THEN <<Digit(n)>> ELSE digits(n \div 10) \o <<Digit(n % 10)>>

\* str(remaining): decimal text of an int
str(n) ==
    IF n < 0 THEN <<"-">> \o digits(0 - n) ELSE digits(n)

\* str.startswith
startswith(s, prefix) ==
    /\ Len(s) >= Len(prefix)
    /\ SubSeq(s, 1, Len(prefix)) = prefix

NoHeaders == [n \in {} |-> <<>>]
DownstreamHeaders == [n \in {"content-type"} |-> <<"j", "s", "o", "n">>]

SetHeader(headers, name, value) ==
    [n \in DOMAIN headers \cup {name} |-> IF n = name THEN value ELSE headers[n]]

Pending ==
    [kind |-> "pending", type |-> "", status_code |-> 0,
     detail |-> "", headers |-> NoHeaders]

Response(status, headers) ==
    [kind |-> "response", type |-> "Response", status_code |-> status,
     detail |-> "", headers |-> headers]

Raised(type, status, detail) ==
    [kind |-> "exception", type |-> type, status_code |-> status,
     detail |-> detail, headers |-> NoHeaders]

\* raise HTTPException(status_code=429, detail="Daily request limit reached")
LimitException == Raised("HTTPException", 429, "Daily request limit reached")

\* request.client.host on a request with client None
AttributeError == Raised("AttributeError", 0, "")

NoRequest == [client |-> None, path |-> <<>>]

\* ------------------------------------------------------------------- state
VARIABLES
    daily_limit,    \* self.daily_limit
    counter,        \* self.counter: dict client_ip -> count
    nreq,           \* number of dispatch calls started so far
    request,        \* request[r]: the request of the r-th dispatch call
    pc,             \* pc[r]: "new", "awaiting", "returned", "raised"
    outcome,        \* outcome[r]: what dispatch gave its caller
    called          \* the dispatch calls that invoked call_next

vars == <<daily_limit, counter, nreq, request, pc, outcome, called>>

Init ==
    /\ daily_limit \in DailyLimits
    /\ counter = [c \in {} |-> 0]
    /\ nreq = 0
    /\ request = [r \in Slots |-> NoRequest]
    /\ pc = [r \in Slots |-> "new"]
    /\ outcome = [r \in Slots |-> Pending]
    /\ called = {}

\* ------------------------------------------------------------- dispatch
\* every request keyed by one and the same address
client_ip_Shared(req) == "1.2.3.4"

client_ip(req) == req.client.host

\* if client_ip not in self.counter: self.counter[client_ip] = 0
Created(cnt, ip) ==
    IF ip \in DOMAIN cnt THEN cnt
    ELSE [c \in DOMAIN cnt \cup {ip} |-> IF c = ip THEN 0 ELSE cnt[c]]

\* exact match instead of prefix match
IsGuarded_Exact(path) == path = QueryPath

IsGuarded(path) == startswith(path, QueryPath)

\* off by one: one request too many is let through
LimitReached_OffByOne(count) == count > daily_limit

LimitReached(count) == count >= daily_limit

\* the increment is lost
Increment_Lost(count) == count

Increment(count) == count + 1

\* daily_limit - self.counter[client_ip]
Remaining(ip) == daily_limit - counter[ip]

\* dispatch from its entry to the await of call_next (or to the raise)
Dispatch(r, client, path) ==
    /\ r = nreq + 1
    /\ r \in Slots
    /\ nreq' = r
    /\ request' = [request EXCEPT ![r] = [client |-> client, path |-> path]]
    /\ UNCHANGED daily_limit
    /\ IF client.is_none
       THEN /\ pc' = [pc EXCEPT ![r] = "raised"]
            /\ outcome' = [outcome EXCEPT ![r] = AttributeError]
            /\ UNCHANGED <<counter, called>>
       ELSE LET ip == client_ip(request'[r])
                created == Created(counter, ip)
            IN  IF IsGuarded(path) /\ LimitReached(created[ip])
                THEN /\ counter' = created
                     /\ pc' = [pc EXCEPT ![r] = "raised"]
                     /\ outcome' = [outcome EXCEPT ![r] = LimitException]
                     /\ UNCHANGED called
                ELSE /\ counter' = IF IsGuarded(path)
                                   THEN [created EXCEPT ![ip] = Increment(@)]
                                   ELSE created
                     /\ called' = called \cup {r}
                     /\ pc' = [pc EXCEPT ![r] = "awaiting"]
                     /\ UNCHANGED outcome

\* the remaining quota is taken from the count as it was when the request
\* was admitted, not as it is when the next handler has returned
CallNextReturns_AtAdmission(r, status) ==
    /\ r \in Slots
    /\ pc[r] = "awaiting"
    /\ LET admitted == {s \in called :
                           /\ s <= r
                           /\ request[s].client.host = request[r].client.host
                           /\ startswith(request[s].path, QueryPath)}
           remaining == daily_limit - Cardinality(admitted)
           response == Response(status, DownstreamHeaders)
       IN  outcome' = [outcome EXCEPT ![r] =
               [response EXCEPT !.headers =
                   SetHeader(response.headers, RemainingHeader, str(remaining))]]
    /\ pc' = [pc EXCEPT ![r] = "returned"]
    /\ UNCHANGED <<daily_limit, counter, nreq, request, called>>

\* call_next returned a response: dispatch resumes and runs to its return
CallNextReturns(r, status) ==
    /\ r \in Slots
    /\ pc[r] = "awaiting"
    /\ LET remaining == Remaining(client_ip(request[r]))
           response == Response(status, DownstreamHeaders)
       IN  outcome' = [outcome EXCEPT ![r] =
               [response EXCEPT !.headers =
                   SetHeader(response.headers, RemainingHeader, str(remaining))]]
    /\ pc' = [pc EXCEPT ![r] = "returned"]
    /\ UNCHANGED <<daily_limit, counter, nreq, request, called>>

\* the charge is rolled back when the next handler fails
CallNextRaises_Rollback(r, error) ==
    /\ r \in Slots
    /\ pc[r] = "awaiting"
    /\ outcome' = [outcome EXCEPT ![r] = Raised(error, 0, "")]
    /\ pc' = [pc EXCEPT ![r] = "raised"]
    /\ counter' = IF IsGuarded(request[r].path)
                  THEN [counter EXCEPT ![request[r].client.host] = @ - 1]
                  ELSE counter
    /\ UNCHANGED <<daily_limit, nreq, request, called>>

\* call_next raised (application error, cancellation): the exception leaves
\* dispatch at the await
CallNextRaises(r, error) ==
    /\ r \in Slots
    /\ pc[r] = "awaiting"
    /\ outcome' = [outcome EXCEPT ![r] = Raised(error, 0, "")]
    /\ pc' = [pc EXCEPT ![r] = "raised"]
    /\ UNCHANGED <<daily_limit, counter, nreq, request, called>>

Next ==
    \/ \E r \in Slots, client \in Clients, path \in Paths : Dispatch(r, client, path)
    \/ \E r \in Slots, status \in DownstreamStatuses : CallNextReturns(r, status)
    \/ \E r \in Slots, error \in DownstreamErrors : CallNextRaises(r, error)

Spec == Init /\ [][Next]_vars

\* --------------------------------------------------- sequential, one client
\* One client sends guarded requests one after another: a dispatch call
\* starts only when no earlier call is still suspended.
SeqDispatch(r, client, path) ==
    /\ \A s \in Slots : pc[s] # "awaiting"
    /\ ~client.is_none
    /\ startswith(path, QueryPath)
    /\ nreq > 0 => client = request[1].client
    /\ Dispatch(r, client, path)

SeqNext ==
    \/ \E r \in Slots, client \in Clients, path \in Paths : SeqDispatch(r, client, path)
    \/ \E r \in Slots, status \in DownstreamStatuses : CallNextReturns(r, status)
    \/ \E r \in Slots, error \in DownstreamErrors : CallNextRaises(r, error)

SpecSeq == Init /\ [][SeqNext]_vars

\* ----------------------------------------------------------- vocabulary
Min(a, b) == IF a <= b THEN a ELSE b

Arrived == 1..nreq

\* the guarded requests of host h, in arrival order by their number
GuardedOf(h) ==
    {r \in Arrived : /\ ~request[r].client.is_none
                     /\ request[r].client.host = h
                     /\ startswith(request[r].path, QueryPath)}

Delegated(r) == r \in called

\* rejected with the 429 outcome, without the next handler being invoked
Rejected(r) == r \notin called /\ pc[r] = "raised" /\ outcome[r] = LimitException

CountIn(cnt, h) == IF h \in DOMAIN cnt THEN cnt[h] ELSE 0

Count(h) == CountIn(counter, h)

\* ------------------------------------------------------------------ C1
\* C1: one client sending N guarded requests one after another with
\* daily_limit L >= 1: requests 1..min(N, L) are delegated to the next
\* handler (exactly min(N, L) of them), and requests L+1..N are each
\* rejected with the 429 outcome.
C1_SequentialQuota ==
    /\ Cardinality(called) = Min(nreq, daily_limit)
    /\ \A n \in Arrived :
          /\ n <= daily_limit => Delegated(n)
          /\ n > daily_limit => Rejected(n) /\ outcome[n].status_code = 429

C1_Witness ==
    /\ nreq > daily_limit
    /\ Rejected(nreq)
    /\ \A n \in 1..daily_limit : pc[n] \in {"returned", "raised"} /\ Delegated(n)

\* ------------------------------------------------------------------ C2
\* C2: with L + M guarded requests of one client in flight concurrently,
\* in every interleaving exactly L are allowed through to the next handler
\* and exactly M are rejected; never L + 1 or more are allowed.
C2_ConcurrentQuota ==
    \A h \in Hosts :
        LET guarded == GuardedOf(h)
            allowed == {r \in guarded : Delegated(r)}
            rejected == {r \in guarded : Rejected(r)}
        IN  /\ Cardinality(allowed) = Min(Cardinality(guarded), daily_limit)
            /\ Cardinality(rejected) = Cardinality(guarded) - Cardinality(allowed)
            /\ Cardinality(allowed) <= daily_limit

\* L requests of one client suspended at the next handler at the same time,
\* and a further one of that client rejected meanwhile
C2_Witness ==
    \E h \in Hosts :
        /\ Cardinality({r \in GuardedOf(h) : pc[r] = "awaiting"}) = daily_limit
        /\ daily_limit >= 2
        /\ \E r \in GuardedOf(h) : Rejected(r)

\* ------------------------------------------------------------------ C3
\* C3: in every reachable state every client's count in the counter mapping
\* is between 0 and daily_limit.
C3_CountWithinLimit ==
    \A c \in DOMAIN counter : 0 <= counter[c] /\ counter[c] <= daily_limit

\* a client at the limit whose further guarded request was rejected, while
\* another client's calls are interleaved
C3_Witness ==
    \E h \in Hosts :
        /\ Count(h) = daily_limit
        /\ \E r \in GuardedOf(h) : Rejected(r)
        /\ \E g \in Hosts \ {h} : Count(g) > 0

\* ------------------------------------------------------------------ C4
HasRemaining(r) == RemainingHeader \in DOMAIN outcome[r].headers

RemainingIs(r, n) == HasRemaining(r) /\ outcome[r].headers[RemainingHeader] = str(n)

\* r is the Rank(h, r)-th allowed guarded request of host h
Rank(h, r) == Cardinality({s \in GuardedOf(h) : Delegated(s) /\ s <= r})

\* C4: the X-Remaining-Requests value on the response to a client's k-th
\* allowed guarded request is daily_limit - k, and on the response to a
\* rejected guarded request it is 0.
C4_RemainingHeader ==
    \A h \in Hosts : \A r \in GuardedOf(h) :
        /\ (Delegated(r) /\ pc[r] = "returned") =>
               RemainingIs(r, daily_limit - Rank(h, r))
        /\ (~Delegated(r) /\ pc[r] = "raised") => RemainingIs(r, 0)

\* ------------------------------------------------------------------ C5
\* C5: a guarded request of a client whose count has reached daily_limit
\* ends dispatch with a returned response value (status 429, detail "Daily
\* request limit reached", remaining-quota annotation attached), not with
\* an exception leaving dispatch.
C5_RejectionIsResponse ==
    \A h \in Hosts : \A r \in GuardedOf(h) :
        ~Delegated(r) =>
            /\ outcome[r].kind = "response"
            /\ outcome[r].status_code = 429
            /\ outcome[r].detail = "Daily request limit reached"
            /\ HasRemaining(r)

\* ------------------------------------------------------------------ C6
\* C6: every request whose path does not start with the guarded prefix is
\* delegated to the next handler whatever the counts are, and handling it
\* leaves every client's count unchanged.
C6_UnguardedPassThrough ==
    [][\A r \in Slots :
          (pc[r] = "new" /\ pc'[r] # "new"
             /\ ~startswith(request'[r].path, QueryPath)) =>
                /\ r \in called'
                /\ \A h \in Hosts : Count(h)' = Count(h)]_vars

\* ------------------------------------------------------------------ C7
\* C7: counters of distinct clients are independent: a step of a dispatch
\* call of client A leaves the count of every other client B unchanged, and
\* a guarded request of B is rejected only when B itself already has
\* daily_limit allowed requests, whatever A has used.
C7_IndependentCounters ==
    [][/\ \A r \in Slots :
             (pc'[r] # pc[r] /\ ~request'[r].client.is_none) =>
                 \A b \in Hosts \ {request'[r].client.host} : Count(b)' = Count(b)
       /\ \A b \in Hosts : \A r \in GuardedOf(b)' :
             (r \notin called' /\ pc'[r] = "raised") =>
                 Cardinality({s \in GuardedOf(b)' : s \in called' /\ s < r})
                     = daily_limit]_vars

\* A has exhausted its quota and been rejected; afterwards B gets
\* daily_limit guarded requests allowed
C7_Witness ==
    \E a \in Hosts : \E b \in Hosts \ {a} : \E ra \in GuardedOf(a) :
        /\ Rejected(ra)
        /\ Count(a) = daily_limit
        /\ Cardinality({s \in GuardedOf(b) : Delegated(s) /\ s > ra}) = daily_limit

\* ------------------------------------------------------------------ C8
\* C8: a request without a connection origin does not make dispatch fail:
\* it ends in a delegated response or in a quota rejection.
C8_MissingOriginHandled ==
    \A r \in Arrived :
        request[r].client.is_none =>
            /\ outcome[r].type # "AttributeError"
            /\ Delegated(r) \/ outcome[r] = LimitException

\* ------------------------------------------------------------------ C9
\* the next handler was invoked for r and raised
DownstreamFailed(r) == Delegated(r) /\ pc[r] = "raised"

\* C9: when the next handler fails for a delegated request, the failure
\* reaches dispatch's caller unchanged and the outcome carries the
\* X-Remaining-Requests annotation.
C9_FailureKeepsHeader ==
    \A r \in Arrived :
        DownstreamFailed(r) =>
            /\ outcome[r].type \in DownstreamErrors
            /\ \E n \in 0..daily_limit : RemainingIs(r, n)

\* ----------------------------------------------------------------- C10
\* C10: admitting a guarded request adds exactly 1 to the client's count in
\* the step that invokes the next handler, and no later step takes it back:
\* counts never decrease, and a client's count is always the number of its
\* guarded requests handed to the next handler, whatever became of them.
C10_ChargeKept ==
    [][/\ \A h \in Hosts : Count(h)' >= Count(h)
       /\ \A r \in Slots :
             (r \in called' \ called /\ startswith(request'[r].path, QueryPath)) =>
                 CountIn(counter', request'[r].client.host)
                     = CountIn(counter, request'[r].client.host) + 1
       /\ \A h \in Hosts :
             Count(h)' = Cardinality({r \in GuardedOf(h)' : r \in called'})]_vars

\* an admitted guarded request whose next handler was cancelled, and one
\* whose next handler failed, both still charged
C10_Witness ==
    \E h \in Hosts : \E r \in GuardedOf(h) : \E s \in GuardedOf(h) :
        /\ Delegated(r) /\ pc[r] = "raised" /\ outcome[r].type = "CancelledError"
        /\ Delegated(s) /\ pc[s] = "raised" /\ outcome[s].type = "RuntimeError"
        /\ Count(h) = 2

\* ----------------------------------------------------------------- C11
\* C11: the X-Remaining-Requests value on a delegated response is
\* daily_limit minus the client's count as it is when the next handler has
\* returned: it lies in 0..daily_limit and is at most daily_limit minus the
\* number of that client's guarded requests admitted up to and including
\* this one, so admissions made while the request was suspended show in it.
C11_HeaderReadAfterReturn ==
    [][\A r \in Slots :
          (pc[r] = "awaiting" /\ pc'[r] = "returned") =>
              LET h == request[r].client.host
                  value == daily_limit - Count(h)
              IN  /\ RemainingHeader \in DOMAIN outcome'[r].headers
                  /\ outcome'[r].headers[RemainingHeader] = str(value)
                  /\ value \in 0..daily_limit
                  /\ value <= daily_limit - Rank(h, r)]_vars

\* a returned response whose header is below daily_limit minus the request's
\* own rank: a later request of the client was admitted while it was suspended
C11_Witness ==
    \E h \in Hosts : \E r \in Arrived :
        /\ ~request[r].client.is_none
        /\ request[r].client.host = h
        /\ Delegated(r) /\ pc[r] = "returned"
        /\ \E n \in 0..daily_limit :
              RemainingIs(r, n) /\ n < daily_limit - Rank(h, r)

TypeOK ==
    /\ daily_limit \in DailyLimits
    /\ DOMAIN counter \subseteq Hosts
    /\ \A c \in DOMAIN counter : counter[c] \in Nat
    /\ nreq \in 0..MaxRequests
    /\ called \subseteq 1..nreq
    /\ \A r \in Slots : pc[r] \in {"new", "awaiting", "returned", "raised"}
    /\ \A r \in Slots : (pc[r] = "new") <=> (r > nreq)
    /\ \A r \in Slots : (pc[r] = "awaiting") => (r \in called /\ outcome[r] = Pending)
====
